---- MODULE Spec2Model ----
(***************************************************************************)
(* LruCache (src/LruCache/src/lib.rs): a fixed-capacity cache whose        *)
(* entries live in a boxed slice of optional nodes threaded into a doubly  *)
(* linked recency list by slot index, with a HashMap from key to slot and  *)
(* a Vec of freed slot indices.                                            *)
(*                                                                         *)
(* Option<T> is modelled as a sequence of length 0 (None) or 1 (Some(x)).  *)
(* A panic (failed expect/unwrap, slice index out of range) stops the      *)
(* operation where it happens; the fields keep what was written before it. *)
(***************************************************************************)
EXTENDS Integers, Sequences, FiniteSets, TLC

\* ---------------------------------------------------------------- bounds
\* Caches of capacity 1..MaxCapacity, called with NumKeys keys and values
\* 1..MaxValue.  Three slots give the list a head, an interior node and a
\* tail; a cache of capacity 1 or 2 can be full and still be offered a key
\* it does not hold; two values tell an update from the value it replaces.
MaxCapacity == 3
NumKeys == 3
MaxValue == 2
\* tests::iter_by_recency sets 2..MaxInserts keys
MaxInserts == 4
\* SpinLock: NumThreads threads, each taking the lock up to MaxRounds times
\* and pushing up to MaxPushes values through each Guard
NumThreads == 3
MaxRounds == 2
MaxPushes == 1
\* Tree: values 1..MaxTreeValue, each inserted up to MaxRepeats times.  Six
\* values reach the rotations that move a subtree across.
MaxTreeValue == 6
MaxRepeats == 2

KeyNames == <<"a", "b", "c", "d", "e", "f", "g", "h">>
Keys == {KeyNames[i] : i \in 1..NumKeys}
Values == 1..MaxValue
Capacities == 1..MaxCapacity

\* ---------------------------------------------------------------- Option
None == <<>>
Some(x) == <<x>>
IsSome(o) == o # <<>>
Unwrap(o) == o[1]

\* ---------------------------------------------------------------- state
VARIABLES map, buffer, head_index, tail_index, len, capacity, free,
          panicked, last, recency, read, test,
          locked, lock_value, threads, root, inserted

\* LruCache and the calls made on it
cacheVars == <<map, buffer, head_index, tail_index, len, capacity, free,
               panicked, last, recency, read, test>>
\* SpinLock (src/sync/src/spinlock.rs) and the threads that use it
lockVars == <<locked, lock_value, threads>>
\* Tree (src/sync/src/binary_tree.rs)
treeVars == <<root, inserted>>

vars == <<map, buffer, head_index, tail_index, len, capacity, free,
          panicked, last, recency, read, test,
          locked, lock_value, threads, root, inserted>>

\* The fields of one LruCache value, as a record the operations work on.
Cache ==
  [map |-> map, buffer |-> buffer, head_index |-> head_index,
   tail_index |-> tail_index, len |-> len, capacity |-> capacity,
   free |-> free, panicked |-> panicked]

\* The same fields after the step.
CacheNext ==
  [map |-> map', buffer |-> buffer', head_index |-> head_index',
   tail_index |-> tail_index', len |-> len', capacity |-> capacity',
   free |-> free', panicked |-> panicked']

\* LruCache::new(size)
New(size) ==
  [map |-> [k \in {} |-> 0],
   buffer |-> [i \in 0..(size - 1) |-> None],
   head_index |-> 0, tail_index |-> 0, len |-> 0, capacity |-> size,
   free |-> <<>>, panicked |-> None]

\* a panic with message msg, raised in state c
Panic(c, msg) == [c EXCEPT !.panicked = Some(msg)]
Ok(c) == c.panicked = None
InRange(c, i) == i \in DOMAIN c.buffer

MsgIndex == "index out of bounds"
MsgTail == "Tail node should be a valid node and not None."
MsgTailPrev == "The tail nodes previous node should be a valid Node and not None."
MsgHead == "The head node should be a valid node and not None."
MsgNext == "The next node should be a valid Node and not None."
MsgUnwrap == "called Option::unwrap on a None value"

\* HashMap::insert / HashMap::remove
MapInsert(m, k, i) == [x \in (DOMAIN m) \cup {k} |-> IF x = k THEN i ELSE m[x]]

\* the evicted key left in the map
MapRemoveNothing(m, k) == m

MapRemove(m, k) == [x \in (DOMAIN m) \ {k} |-> m[x]]

\* ---------------------------------------------------------------- iter
\* LruCacheIter::next, unrolled: the values yielded from current_idx on.
\* fuel bounds the walk; a walk that outlives it never ends (see Iter).
RECURSIVE IterFrom(_, _, _)
IterFrom(c, current_idx, fuel) ==
  IF fuel = 0 \/ ~IsSome(current_idx)
  THEN [yielded |-> <<>>, panicked |-> None]
  ELSE LET index == Unwrap(current_idx) IN
       IF ~InRange(c, index)
       THEN [yielded |-> <<>>, panicked |-> Some(MsgIndex)]
       ELSE IF IsSome(c.buffer[index])
            THEN LET current_node == Unwrap(c.buffer[index])
                     rest == IterFrom(c, current_node.next, fuel - 1)
                 IN [yielded |-> <<current_node.value>> \o rest.yielded,
                     panicked |-> rest.panicked]
            ELSE [yielded |-> <<>>, panicked |-> None]

\* LruCache::iter, collected.  A walk over capacity slots that yields more
\* than capacity values has revisited a slot and so never terminates.
Iter(c) ==
  LET walk == IterFrom(c, Some(c.head_index), c.capacity + 1) IN
  [finite |-> Len(walk.yielded) <= c.capacity,
   yielded |-> SubSeq(walk.yielded, 1, IF Len(walk.yielded) <= c.capacity
                                      THEN Len(walk.yielded) ELSE c.capacity),
   panicked |-> walk.panicked]

\* ---------------------------------------------------------------- helpers
\* replace_at_index writing to the head slot instead of the slot it is given
replace_at_head(c, index, value) ==
  IF ~InRange(c, c.head_index) THEN Panic(c, MsgIndex)
  ELSE IF IsSome(c.buffer[c.head_index])
       THEN [c EXCEPT !.buffer[c.head_index] =
               Some([Unwrap(c.buffer[c.head_index]) EXCEPT !.value = value])]
       ELSE c

\* LruCache::replace_at_index
replace_at_index(c, index, value) ==
  IF ~InRange(c, index) THEN Panic(c, MsgIndex)
  ELSE IF IsSome(c.buffer[index])
       THEN [c EXCEPT !.buffer[index] = Some([Unwrap(c.buffer[index]) EXCEPT !.value = value])]
       ELSE c

\* new_head_node never linking the node to the current head
new_head_node_unlinked(c, key, value) ==
  [previous |-> None, next |-> None, key |-> key, value |-> value]

\* LruCache::new_head_node
new_head_node(c, key, value) ==
  IF c.len = 0
  THEN [previous |-> None, next |-> None, key |-> key, value |-> value]
  ELSE [previous |-> None, next |-> Some(c.head_index), key |-> key, value |-> value]

\* LruCache::get_node / get_node_mut: Option<&Node> at an optional index
get_node(c, index) ==
  IF IsSome(index) THEN c.buffer[Unwrap(index)] ELSE None

\* the freed index not recorded
track_free_forgets(c, index) == c.free

\* remove, line 203: self.free.push(index)
track_free(c, index) == Append(c.free, index)

\* the freed index read but left on the list
pop_free_peeks(c) == c.free

\* push_front, line 122: what self.free.pop() leaves on the list
pop_free(c) == SubSeq(c.free, 1, Len(c.free) - 1)

\* LruCache::remove: take the node out of its slot, track the slot as free,
\* splice the neighbours that are occupied.  Returns the removed (key, value).
remove(c, index) ==
  IF ~InRange(c, index) THEN [c |-> Panic(c, MsgIndex), ret |-> None]
  ELSE
    LET remove_node == c.buffer[index]
        c1 == [c EXCEPT !.buffer[index] = None, !.free = track_free(c, index)]
    IN IF ~IsSome(remove_node) THEN [c |-> c1, ret |-> None]
       ELSE
         LET node == Unwrap(remove_node)
             p == get_node(c1, node.previous)
             n == get_node(c1, node.next)
             c2 ==
               IF ~IsSome(p) /\ ~IsSome(n) THEN c1
               ELSE IF ~IsSome(p) /\ IsSome(n)
                 THEN [c1 EXCEPT !.buffer[Unwrap(node.next)] =
                         Some([Unwrap(n) EXCEPT !.previous = None])]
               ELSE IF IsSome(p) /\ ~IsSome(n)
                 THEN [c1 EXCEPT !.buffer[Unwrap(node.previous)] =
                         Some([Unwrap(p) EXCEPT !.next = None])]
               ELSE
                 LET c3 == [c1 EXCEPT !.buffer[Unwrap(node.previous)] =
                              Some([Unwrap(p) EXCEPT !.next = node.next])]
                     n3 == Unwrap(c3.buffer[Unwrap(node.next)])
                 IN [c3 EXCEPT !.buffer[Unwrap(node.next)] =
                       Some([n3 EXCEPT !.previous = node.previous])]
         IN [c |-> c2, ret |-> Some(<<node.key, node.value>>)]

\* the first branch taken also when every slot has been handed out
has_unused_slot_off_by_one(c) == c.len <= c.capacity

\* a freed slot taken before an unused one
has_unused_slot_unless_freed(c) == c.len < c.capacity /\ Len(c.free) = 0

\* push_front, line 116: slots len..capacity-1 have never been used
has_unused_slot(c) == c.len < c.capacity

\* the eviction overwriting the head instead of the tail
evicted_slot_is_head(c) == c.head_index

\* push_front, line 129: the slot that eviction overwrites
evicted_slot(c) == c.tail_index

\* push_front, lines 116-149: choose the slot of the new head and store the
\* node there.  Returns the cache and the key that was overwritten, if any.
place_node(c, node) ==
  IF has_unused_slot(c) THEN
    LET c1 == [c EXCEPT !.head_index = c.len, !.len = c.len + 1] IN
    IF ~InRange(c1, c1.head_index) THEN [c |-> Panic(c1, MsgIndex), old_key |-> None]
    ELSE [c |-> [c1 EXCEPT !.buffer[c1.head_index] = Some(node)], old_key |-> None]
  ELSE IF Len(c.free) > 0 THEN
    LET idx == c.free[Len(c.free)]
        c1 == [c EXCEPT !.free = pop_free(c), !.head_index = idx]
    IN IF ~InRange(c1, idx) THEN [c |-> Panic(c1, MsgIndex), old_key |-> None]
       ELSE [c |-> [c1 EXCEPT !.buffer[idx] = Some(node)], old_key |-> None]
  ELSE
    LET c1 == [c EXCEPT !.head_index = evicted_slot(c)] IN
    IF ~InRange(c1, c1.head_index) THEN [c |-> Panic(c1, MsgIndex), old_key |-> None]
    ELSE IF ~IsSome(c1.buffer[c1.head_index]) THEN [c |-> Panic(c1, MsgTail), old_key |-> None]
    ELSE
      LET old_node == Unwrap(c1.buffer[c1.head_index]) IN
      IF IsSome(old_node.previous) THEN
        LET new_tail_node == Unwrap(old_node.previous)
            c2 == [c1 EXCEPT !.tail_index = new_tail_node]
        IN IF ~InRange(c2, new_tail_node) THEN [c |-> Panic(c2, MsgIndex), old_key |-> None]
           ELSE IF ~IsSome(c2.buffer[new_tail_node])
                THEN [c |-> Panic(c2, MsgTailPrev), old_key |-> None]
           ELSE
             LET c3 == [c2 EXCEPT !.buffer[new_tail_node] =
                          Some([Unwrap(c2.buffer[new_tail_node]) EXCEPT !.next = None])]
             IN [c |-> [c3 EXCEPT !.buffer[c3.head_index] = Some(node)],
                 old_key |-> Some(Unwrap(c3.buffer[c3.head_index]).key)]
      ELSE [c |-> [c1 EXCEPT !.buffer[c1.head_index] = Some(node)],
            old_key |-> Some(old_node.key)]

\* push_front, lines 151-162: the node after the new head gets the new head
\* as its previous node.
link_second(c) ==
  IF ~IsSome(c.buffer[c.head_index]) THEN Panic(c, MsgHead)
  ELSE
    LET head_node == Unwrap(c.buffer[c.head_index]) IN
    IF IsSome(head_node.next) THEN
      LET next_node_index == Unwrap(head_node.next) IN
      IF ~InRange(c, next_node_index) THEN Panic(c, MsgIndex)
      ELSE IF ~IsSome(c.buffer[next_node_index]) THEN Panic(c, MsgNext)
      ELSE [c EXCEPT !.buffer[next_node_index] =
              Some([Unwrap(c.buffer[next_node_index]) EXCEPT !.previous = Some(c.head_index)])]
    ELSE c

\* LruCache::push_front: returns (head_index, old_key) and the cache
push_front(c, key, value) ==
  LET node == new_head_node(c, key, value)
      placed == place_node(c, node)
      linked == IF Ok(placed.c) THEN link_second(placed.c) ELSE placed.c
  IN [c |-> linked, index |-> linked.head_index, old_key |-> placed.old_key]

\* LruCache::get, lines 235-241: the key is in the map at index
get_hit(c, index) ==
  LET removed == remove(c, index) IN
  IF ~Ok(removed.c) THEN [c |-> removed.c, ret |-> None]
  ELSE IF ~IsSome(removed.ret) THEN [c |-> Panic(removed.c, MsgUnwrap), ret |-> None]
  ELSE
    LET kv == Unwrap(removed.ret)
        r == push_front(removed.c, kv[1], kv[2])
    IN IF ~Ok(r.c) THEN [c |-> r.c, ret |-> None]
       ELSE LET c1 == [r.c EXCEPT !.map = MapInsert(r.c.map, kv[1], r.index)]
                slot == c1.buffer[r.index]
            IN [c |-> c1,
                ret |-> IF IsSome(slot) THEN Some(Unwrap(slot).value) ELSE None]

\* get looking the head slot up when the key is not in the map
GetDefaultsToHead(c, key) ==
  IF key \in DOMAIN c.map THEN get_hit(c, c.map[key])
  ELSE [c |-> get_hit(c, c.head_index).c, ret |-> None]

\* LruCache::get: returns the cache and the Option<&V> it hands back
Get(c, key) ==
  IF key \in DOMAIN c.map THEN get_hit(c, c.map[key])
  ELSE [c |-> c, ret |-> None]

\* LruCache::set, lines 170-176: the key is not in the map
set_new(c, key, value) ==
  LET r == push_front(c, key, value) IN
  IF ~Ok(r.c) THEN r.c
  ELSE LET m1 == MapInsert(r.c.map, key, r.index)
           m2 == IF IsSome(r.old_key) THEN MapRemove(m1, Unwrap(r.old_key)) ELSE m1
       IN [r.c EXCEPT !.map = m2]

\* set moving a key that is present to the head, as get does
SetRefreshes(c, key, value) ==
  IF key \notin DOMAIN c.map THEN set_new(c, key, value)
  ELSE LET c1 == replace_at_index(c, c.map[key], value) IN
       IF Ok(c1) THEN get_hit(c1, c1.map[key]).c ELSE c1

\* LruCache::set
Set(c, key, value) ==
  IF key \notin DOMAIN c.map THEN set_new(c, key, value)
  ELSE replace_at_index(c, c.map[key], value)

\* ---------------------------------------------------------------- recency
\* The keys of the cache from most to least recently used, where a use is
\* an insertion as a new key (set, lines 170-176) or a hit (get, lines
\* 235-241); a key leaves when set drops it from the map.
Touch(order, m, key) ==
  LET Keep(x) == x # key /\ x \in DOMAIN m IN
  <<key>> \o SelectSeq(order, Keep)

\* recency after cache.set(key, _) turned cache c into d
RecencyAfterSet(order, c, d, key) ==
  IF Ok(d) /\ key \notin DOMAIN c.map THEN Touch(order, d.map, key) ELSE order

\* recency after cache.get(key) turned cache c into d
RecencyAfterGet(order, c, d, key) ==
  IF Ok(d) /\ key \in DOMAIN c.map THEN Touch(order, d.map, key) ELSE order

\* The keys that a get has hit since they were last inserted.
ReadAfterSet(rd, c, d, key) ==
  IF Ok(d) /\ key \notin DOMAIN c.map THEN (rd \cap DOMAIN d.map) \ {key} ELSE rd

ReadAfterGet(rd, c, d, key) ==
  IF Ok(d) /\ key \in DOMAIN c.map THEN (rd \cup {key}) \cap DOMAIN d.map ELSE rd

\* ---------------------------------------------------------------- actions
\* what the last call was and what it returned
Call(op, key, value) ==
  [op |-> op, key |-> key, value |-> value, ret |-> None,
   yielded |-> <<>>, finite |-> TRUE]

Install(c) ==
  /\ map' = c.map
  /\ buffer' = c.buffer
  /\ head_index' = c.head_index
  /\ tail_index' = c.tail_index
  /\ len' = c.len
  /\ capacity' = c.capacity
  /\ free' = c.free
  /\ panicked' = c.panicked

\* let mut cache = LruCache::new(size), nothing called yet
Fresh(size) ==
  /\ map = New(size).map
  /\ buffer = New(size).buffer
  /\ head_index = New(size).head_index
  /\ tail_index = New(size).tail_index
  /\ len = New(size).len
  /\ capacity = New(size).capacity
  /\ free = New(size).free
  /\ panicked = New(size).panicked
  /\ last = Call("new", "", 0)
  /\ recency = <<>>
  /\ read = {}

NoTest == [name |-> "none", keys |-> <<>>, values |-> <<>>, step |-> 0, failed |-> FALSE]

\* no SpinLock in use
NoLock == locked = FALSE /\ lock_value = <<>> /\ threads = <<>>

\* no Tree in use
NoTree == root = None /\ inserted = <<>>

Init ==
  \E size \in Capacities :
    /\ Fresh(size)
    /\ test = NoTest
    /\ NoLock
    /\ NoTree

\* cache.set(key, value)
SetCall ==
  \E key \in Keys, value \in Values :
    /\ panicked = None
    /\ \E c \in {Set(Cache, key, value)} :
         /\ Install(c)
         /\ last' = Call("set", key, value)
         /\ recency' = RecencyAfterSet(recency, Cache, c, key)
         /\ read' = ReadAfterSet(read, Cache, c, key)
    /\ UNCHANGED <<test, lockVars, treeVars>>

\* cache.get(key)
GetCall ==
  \E key \in Keys :
    /\ panicked = None
    /\ \E r \in {Get(Cache, key)} :
         /\ Install(r.c)
         /\ last' = [Call("get", key, 0) EXCEPT !.ret = r.ret]
         /\ recency' = RecencyAfterGet(recency, Cache, r.c, key)
         /\ read' = ReadAfterGet(read, Cache, r.c, key)
    /\ UNCHANGED <<test, lockVars, treeVars>>

\* cache.iter(), run to its end
IterCall ==
  /\ panicked = None
  /\ \E it \in {Iter(Cache)} :
       last' = [Call("iter", "", 0) EXCEPT
                  !.yielded = it.yielded, !.finite = it.finite]
  /\ UNCHANGED <<map, buffer, head_index, tail_index, len, capacity, free,
                 panicked, recency, read, test, lockVars, treeVars>>

Next == SetCall \/ GetCall \/ IterCall

Spec == Init /\ [][Next]_vars

\* ---------------------------------------------------------------- tests
\* tests::test_set_get (lines 279-296), for a cache of any capacity n: the
\* test sets n keys, reads them in the order they were set, sets one more
\* key, and reads the first key, then the others and the new one.
\* test.keys are the n + 1 keys, test.values their values, test.step the
\* number of statements run; a failed assert_eq! ends the test.
TestKeys == {KeyNames[i] : i \in 1..(MaxCapacity + 1)}

TestLength(n) == 3 * n + 2

\* the statement run as number i (from 1) of the test on capacity n
Statement(t, n, i) ==
  IF i <= n
    THEN [op |-> "set", key |-> t.keys[i], value |-> t.values[i], expect |-> None]
  ELSE IF i <= 2 * n
    THEN [op |-> "get", key |-> t.keys[i - n], value |-> 0,
          expect |-> Some(t.values[i - n])]
  ELSE IF i = 2 * n + 1
    THEN [op |-> "set", key |-> t.keys[n + 1], value |-> t.values[n + 1], expect |-> None]
  ELSE IF i = 2 * n + 2
    THEN [op |-> "get", key |-> t.keys[1], value |-> 0, expect |-> None]
  ELSE [op |-> "get", key |-> t.keys[i - 2 * n - 1], value |-> 0,
        expect |-> Some(t.values[i - 2 * n - 1])]

InitTests ==
  \E size \in Capacities :
    /\ Fresh(size)
    /\ NoLock
    /\ NoTree
    /\ \E ks \in [1..(size + 1) -> TestKeys], vs \in [1..(size + 1) -> Values] :
         /\ \A i, j \in DOMAIN ks : ks[i] = ks[j] => i = j
         /\ test = [name |-> "test_set_get", keys |-> ks, values |-> vs,
                    step |-> 0, failed |-> FALSE]

\* the next cache.set(..) statement of the test
TestSet ==
  LET st == Statement(test, capacity, test.step + 1) IN
  /\ test.name = "test_set_get"
  /\ test.step < TestLength(capacity)
  /\ ~test.failed
  /\ panicked = None
  /\ st.op = "set"
  /\ \E c \in {Set(Cache, st.key, st.value)} :
       /\ Install(c)
       /\ last' = Call("set", st.key, st.value)
       /\ recency' = RecencyAfterSet(recency, Cache, c, st.key)
       /\ read' = ReadAfterSet(read, Cache, c, st.key)
  /\ test' = [test EXCEPT !.step = test.step + 1]
  /\ UNCHANGED <<lockVars, treeVars>>

\* the next assert_eq!(cache.get(..), ..) statement of the test
TestAssertGet ==
  LET st == Statement(test, capacity, test.step + 1) IN
  /\ test.name = "test_set_get"
  /\ test.step < TestLength(capacity)
  /\ ~test.failed
  /\ panicked = None
  /\ st.op = "get"
  /\ \E r \in {Get(Cache, st.key)} :
       /\ Install(r.c)
       /\ last' = [Call("get", st.key, 0) EXCEPT !.ret = r.ret]
       /\ recency' = RecencyAfterGet(recency, Cache, r.c, st.key)
       /\ read' = ReadAfterGet(read, Cache, r.c, st.key)
       /\ test' = [test EXCEPT !.step = test.step + 1,
                               !.failed = Ok(r.c) /\ r.ret # st.expect]
  /\ UNCHANGED <<lockVars, treeVars>>

NextTests == TestSet \/ TestAssertGet

SpecTests == InitTests /\ [][NextTests]_vars

\* tests::iter_by_recency (lines 299-315), for n keys in a cache with more
\* than n + 1 slots: the test sets the keys to the values 1..n, reads the
\* first key and walks iter() to its end.
IterTestKeys == {KeyNames[i] : i \in 1..MaxInserts}

InitIterTest ==
  \E n \in 2..MaxInserts :
    \E size \in (n + 2)..(MaxInserts + 3), ks \in [1..n -> IterTestKeys] :
      /\ \A i, j \in DOMAIN ks : ks[i] = ks[j] => i = j
      /\ Fresh(size)
      /\ test = [name |-> "iter_by_recency", keys |-> ks,
                 values |-> [i \in 1..n |-> i], step |-> 0, failed |-> FALSE]
      /\ NoLock
      /\ NoTree

\* cache.set(key, value), statements 1..n
IterTestSet ==
  LET i == test.step + 1 IN
  /\ test.name = "iter_by_recency"
  /\ test.step < Len(test.keys)
  /\ panicked = None
  /\ \E c \in {Set(Cache, test.keys[i], test.values[i])} :
       /\ Install(c)
       /\ last' = Call("set", test.keys[i], test.values[i])
       /\ recency' = RecencyAfterSet(recency, Cache, c, test.keys[i])
       /\ read' = ReadAfterSet(read, Cache, c, test.keys[i])
  /\ test' = [test EXCEPT !.step = test.step + 1]
  /\ UNCHANGED <<lockVars, treeVars>>

\* cache.get("a"), statement n + 1; the result is dropped
IterTestGet ==
  /\ test.name = "iter_by_recency"
  /\ test.step = Len(test.keys)
  /\ panicked = None
  /\ \E r \in {Get(Cache, test.keys[1])} :
       /\ Install(r.c)
       /\ last' = [Call("get", test.keys[1], 0) EXCEPT !.ret = r.ret]
       /\ recency' = RecencyAfterGet(recency, Cache, r.c, test.keys[1])
       /\ read' = ReadAfterGet(read, Cache, r.c, test.keys[1])
  /\ test' = [test EXCEPT !.step = test.step + 1]
  /\ UNCHANGED <<lockVars, treeVars>>

\* for node in cache.iter() { .. }, statement n + 2
IterTestIter ==
  /\ test.name = "iter_by_recency"
  /\ test.step = Len(test.keys) + 1
  /\ panicked = None
  /\ \E it \in {Iter(Cache)} :
       last' = [Call("iter", "", 0) EXCEPT
                  !.yielded = it.yielded, !.finite = it.finite]
  /\ test' = [test EXCEPT !.step = test.step + 1]
  /\ UNCHANGED <<map, buffer, head_index, tail_index, len, capacity, free,
                 panicked, recency, read, lockVars, treeVars>>

NextIterTest == IterTestSet \/ IterTestGet \/ IterTestIter

SpecIterTest == InitIterTest /\ [][NextIterTest]_vars

\* ---------------------------------------------------------------- SpinLock
\* SpinLock<Vec<_>> (src/sync/src/spinlock.rs).  locked is the AtomicBool,
\* lock_value the protected vector, threads[t] the position of thread t:
\*   "idle"       outside lock(), holding no Guard
\*   "swap"       in lock(), about to call swap (line 22)
\*   "while"      swap has returned old, the loop condition not yet decided
\*   "spin_loop"  in the loop body (line 24)
\*   "guard"      owns the Guard returned at line 27
\*   "deref_mut"  holds the &mut returned by deref_mut (line 51)
\* todo is what the thread still pushes through its Guard, rounds the number
\* of Guards it has dropped.  All accesses to locked are swap/store on one
\* atomic, which are totally ordered.

\* no LruCache in use
NoCache ==
  /\ map = <<>>
  /\ buffer = <<>>
  /\ head_index = 0
  /\ tail_index = 0
  /\ len = 0
  /\ capacity = 0
  /\ free = <<>>
  /\ panicked = None
  /\ last = Call("none", "", 0)
  /\ recency = <<>>
  /\ read = {}

\* SpinLock::new(Vec::new())
NewLock == locked = FALSE /\ lock_value = <<>>

\* AtomicBool::swap(val): stores val, returns the previous value
swap(current, val) == [old |-> current, now |-> val]

\* the loop left when the lock was already held
exits_loop_when_held(old) == old

\* lock, line 22: the while loop ends when swap returned false
exits_loop(old) == ~old

\* self.locked.swap(true, Acquire) by thread t; old is what it returned
Swap(t) ==
  LET s == swap(locked, TRUE) IN
  /\ threads[t].pc = "swap"
  /\ locked' = s.now
  /\ threads' = [threads EXCEPT ![t].pc = "while", ![t].old = Some(s.old)]
  /\ UNCHANGED <<lock_value, cacheVars, treeVars>>

\* the while condition on the value swap returned: into the loop body, or
\* on to line 27, Guard { lock: self }
While(t) ==
  /\ threads[t].pc = "while"
  /\ threads' = [threads EXCEPT
                   ![t].pc = IF exits_loop(Unwrap(threads[t].old))
                               THEN "guard" ELSE "spin_loop",
                   ![t].old = None]
  /\ UNCHANGED <<locked, lock_value, cacheVars, treeVars>>

\* std::hint::spin_loop(), then back to the loop condition
SpinLoop(t) ==
  /\ threads[t].pc = "spin_loop"
  /\ threads' = [threads EXCEPT ![t].pc = "swap"]
  /\ UNCHANGED <<locked, lock_value, cacheVars, treeVars>>

\* Guard::deref_mut: thread t takes &mut to the value
DerefMut(t) ==
  /\ threads[t].pc = "guard"
  /\ threads[t].todo # <<>>
  /\ threads' = [threads EXCEPT ![t].pc = "deref_mut"]
  /\ UNCHANGED <<locked, lock_value, cacheVars, treeVars>>

\* Vec::push through the &mut.  With a second &mut alive at the same time
\* the push is a data race: the element is appended, lost, or the vector
\* is left holding it alone.
Push(t) ==
  LET v == Head(threads[t].todo)
      racing == \E u \in DOMAIN threads : u # t /\ threads[u].pc = "deref_mut"
  IN /\ threads[t].pc = "deref_mut"
     /\ lock_value' \in IF racing
                          THEN {Append(lock_value, v), lock_value, <<v>>}
                          ELSE {Append(lock_value, v)}
     /\ threads' = [threads EXCEPT ![t].pc = "guard",
                                   ![t].todo = Tail(threads[t].todo)]
     /\ UNCHANGED <<locked, cacheVars, treeVars>>

\* the Guard dropped without the store
DropKeepsLocked(t) ==
  /\ threads[t].pc = "guard"
  /\ threads[t].todo = <<>>
  /\ threads' = [threads EXCEPT ![t].pc = "idle",
                                ![t].rounds = threads[t].rounds + 1]
  /\ UNCHANGED <<locked, lock_value, cacheVars, treeVars>>

\* Guard::drop: self.lock.locked.store(false, Release)
Drop(t) ==
  /\ threads[t].pc = "guard"
  /\ threads[t].todo = <<>>
  /\ locked' = FALSE
  /\ threads' = [threads EXCEPT ![t].pc = "idle",
                                ![t].rounds = threads[t].rounds + 1]
  /\ UNCHANGED <<lock_value, cacheVars, treeVars>>

\* thread t calls x.lock(), to push its own number up to MaxPushes times
LockCall(t) ==
  /\ threads[t].pc = "idle"
  /\ threads[t].rounds < MaxRounds
  /\ \E n \in 0..MaxPushes :
       threads' = [threads EXCEPT ![t].pc = "swap",
                                  ![t].todo = [i \in 1..n |-> t]]
  /\ UNCHANGED <<locked, lock_value, cacheVars, treeVars>>

InitLock ==
  /\ NoCache
  /\ test = NoTest
  /\ NoTree
  /\ NewLock
  /\ threads = [t \in 1..NumThreads |-> [pc |-> "idle", todo |-> <<>>, rounds |-> 0, old |-> None]]

NextLock ==
  \/ \E t \in DOMAIN threads : LockCall(t)
  \/ \E t \in DOMAIN threads : Swap(t)
  \/ \E t \in DOMAIN threads : While(t)
  \/ \E t \in DOMAIN threads : SpinLoop(t)
  \/ \E t \in DOMAIN threads : DerefMut(t)
  \/ \E t \in DOMAIN threads : Push(t)
  \/ \E t \in DOMAIN threads : Drop(t)

SpecLock == InitLock /\ [][NextLock]_vars

\* any step of thread t
ThreadStep(t) ==
  LockCall(t) \/ Swap(t) \/ While(t) \/ SpinLoop(t) \/ DerefMut(t) \/ Push(t)
    \/ Drop(t)

\* every thread that can take a step is scheduled again: no thread blocks,
\* in lock() or while it holds a Guard
SpecLockFair == SpecLock /\ \A t \in 1..NumThreads : WF_vars(ThreadStep(t))

\* tests::spin_lock (spinlock.rs lines 67-80, lib.rs lines 8-21): main
\* spawns t1 and t2 in a scope, waits for the scope, locks and asserts.
\* A spawned thread is "unspawned", then "started" until its closure calls
\* x.lock(), and "returned" once the closure has ended.
Spawned == {"t1", "t2"}

\* what the closure of thread t pushes through its Guard
Pushes(t) == IF t = "t1" THEN <<1>> ELSE <<2, 3>>

InitLockTest ==
  /\ NoCache
  /\ test = [name |-> "spin_lock", keys |-> <<>>, values |-> <<>>,
             step |-> 0, failed |-> FALSE]
  /\ NoTree
  /\ NewLock
  /\ threads = [t \in Spawned \cup {"main"} |->
                  [pc |-> IF t = "main" THEN "spawn" ELSE "unspawned",
                   todo |-> <<>>, rounds |-> 0, old |-> None]]

\* s.spawn(..) of t1, then of t2; then main waits at the end of the scope
LockTestSpawn ==
  LET t == IF test.step = 0 THEN "t1" ELSE "t2" IN
  /\ test.name = "spin_lock"
  /\ threads["main"].pc = "spawn"
  /\ threads' = [threads EXCEPT
                   ![t].pc = "started",
                   !["main"].pc = IF test.step = 0 THEN "spawn" ELSE "scope"]
  /\ test' = [test EXCEPT !.step = test.step + 1]
  /\ UNCHANGED <<locked, lock_value, map, buffer, head_index, tail_index,
                 len, capacity, free, panicked, last, recency, read,
                 treeVars>>

\* the closure of thread t calls x.lock()
LockTestLock(t) ==
  /\ test.name = "spin_lock"
  /\ threads[t].pc = "started"
  /\ threads' = [threads EXCEPT ![t].pc = "swap", ![t].todo = Pushes(t)]
  /\ UNCHANGED <<locked, lock_value, cacheVars, treeVars>>

\* the closure of thread t ends, its Guard dropped
LockTestReturn(t) ==
  /\ test.name = "spin_lock"
  /\ threads[t].pc = "idle"
  /\ threads[t].rounds = 1
  /\ threads' = [threads EXCEPT ![t].pc = "returned"]
  /\ UNCHANGED <<locked, lock_value, cacheVars, treeVars>>

\* both spawned threads have finished
Finished == \A t \in Spawned : threads[t].pc = "returned"

\* the scope ends when both threads have finished; main calls x.lock()
LockTestJoin ==
  /\ test.name = "spin_lock"
  /\ threads["main"].pc = "scope"
  /\ Finished
  /\ threads' = [threads EXCEPT !["main"].pc = "swap"]
  /\ UNCHANGED <<locked, lock_value, cacheVars, treeVars>>

\* assert!(g.as_slice() == [1, 2, 3] || g.as_slice() == [3, 2, 1]); g is
\* dropped when the function returns or unwinds
LockTestAssert ==
  /\ test.name = "spin_lock"
  /\ threads["main"].pc = "guard"
  /\ test' = [test EXCEPT
                !.step = test.step + 1,
                !.failed = ~(lock_value = <<1, 2, 3>> \/ lock_value = <<3, 2, 1>>)]
  /\ locked' = FALSE
  /\ threads' = [threads EXCEPT !["main"].pc = "idle",
                                !["main"].rounds = threads["main"].rounds + 1]
  /\ UNCHANGED <<lock_value, map, buffer, head_index, tail_index,
                 len, capacity, free, panicked, last, recency, read,
                 treeVars>>

NextLockTest ==
  \/ LockTestSpawn
  \/ \E t \in Spawned : LockTestLock(t)
  \/ \E t \in DOMAIN threads : Swap(t)
  \/ \E t \in DOMAIN threads : While(t)
  \/ \E t \in DOMAIN threads : SpinLoop(t)
  \/ \E t \in Spawned : DerefMut(t)
  \/ \E t \in Spawned : Push(t)
  \/ \E t \in Spawned : Drop(t)
  \/ \E t \in Spawned : LockTestReturn(t)
  \/ LockTestJoin
  \/ LockTestAssert

SpecLockTest == InitLockTest /\ [][NextLockTest]_vars

\* ---------------------------------------------------------------- Tree
\* Tree<i32> (src/sync/src/binary_tree.rs).  A Node is a record
\* [left, right, height, value] with left and right of type Option<Node>;
\* root is the Option<Node> of the tree.  inserted[v] counts the calls
\* insert(v).  A failed unwrap/expect unwinds the whole insert: the operators
\* pass Unwound up, and the tree is left with the root that take() emptied.
TreeValues == 1..MaxTreeValue

\* Node::new
NodeNew(value) == [left |-> None, right |-> None, height |-> 1, value |-> value]

\* stands for a call that panicked; no node has height 0
Unwound == [left |-> None, right |-> None, height |-> 0, value |-> 0]
IsUnwound(node) == node.height = 0

Max(a, b) == IF a >= b THEN a ELSE b

\* Node::height
height(node) == IF IsSome(node) THEN Unwrap(node).height ELSE 0

\* the height taken from the left subtree alone
fix_height_of_left(self) == [self EXCEPT !.height = 1 + height(self.left)]

\* Node::fix_height
fix_height(self) ==
  [self EXCEPT !.height = 1 + Max(height(self.left), height(self.right))]

\* the right subtree of the left child not handed over
rotate_right_loses_subtree(self) ==
  IF ~IsSome(self.left) THEN Unwound
  ELSE
    LET left_child == Unwrap(self.left)
        self1 == fix_height([self EXCEPT !.left = None])
    IN fix_height([left_child EXCEPT !.right = Some(self1)])

\* Node::rotate_right: fix_height runs on self while its left is still
\* empty, before left_child_right is attached
rotate_right(self) ==
  IF ~IsSome(self.left) THEN Unwound
  ELSE
    LET left_child == Unwrap(self.left)
        left_child_right == left_child.right
        self1 == fix_height([self EXCEPT !.left = None])
        self2 == [self1 EXCEPT !.left = left_child_right]
    IN fix_height([left_child EXCEPT !.right = Some(self2)])

\* Node::rotate_left
rotate_left(self) ==
  IF ~IsSome(self.right) THEN Unwound
  ELSE
    LET right_child == Unwrap(self.right)
        right_child_left == right_child.left
        self1 == fix_height([self EXCEPT !.right = None])
        self2 == [self1 EXCEPT !.right = right_child_left]
    IN fix_height([right_child EXCEPT !.left = Some(self2)])

\* Option<usize> > Option<usize>: None is below every Some
OptionGt(l, r) ==
  IF ~IsSome(l) THEN FALSE
  ELSE IF ~IsSome(r) THEN TRUE
  ELSE Unwrap(l) > Unwrap(r)

\* self.left.as_ref().map(|n| Node::height(&n.left)) and its like
HeightOf(child, side) ==
  IF IsSome(child) THEN Some(height(Unwrap(child)[side])) ELSE None

\* Node::balance
balance(self) ==
  LET s == fix_height(self)
      balance_factor == height(s.left) - height(s.right)
  IN IF balance_factor > 1 THEN
       IF OptionGt(HeightOf(s.left, "left"), HeightOf(s.left, "right"))
         THEN rotate_right(s)
       ELSE IF ~IsSome(s.left) THEN Unwound
       ELSE LET l == rotate_left(Unwrap(s.left)) IN
            IF IsUnwound(l) THEN Unwound
            ELSE rotate_right([s EXCEPT !.left = Some(l)])
     ELSE IF balance_factor < -1 THEN
       IF OptionGt(HeightOf(s.right, "right"), HeightOf(s.right, "left"))
         THEN rotate_left(s)
       ELSE IF ~IsSome(s.right) THEN Unwound
       ELSE LET r == rotate_right(Unwrap(s.right)) IN
            IF IsUnwound(r) THEN Unwound
            ELSE rotate_left([s EXCEPT !.right = Some(r)])
     ELSE s

\* Node::insert
RECURSIVE NodeInsert(_, _)
NodeInsert(self, value) ==
  LET side == IF value < self.value THEN "left" ELSE "right"
      child ==
        IF IsSome(self[side]) THEN NodeInsert(Unwrap(self[side]), value)
        ELSE NodeNew(value)
  IN IF value < self.value \/ value > self.value THEN
       IF IsUnwound(child) THEN Unwound
       ELSE balance([self EXCEPT ![side] = Some(child)])
     ELSE balance([self EXCEPT !.value = value])

\* AvlTreeIter::push_left_branch
RECURSIVE push_left_branch(_, _)
push_left_branch(stack, node) ==
  IF IsSome(node)
    THEN push_left_branch(Append(stack, Unwrap(node)), Unwrap(node).left)
    ELSE stack

\* AvlTreeIter::next until it returns None: the values yielded
RECURSIVE TreeIterFrom(_)
TreeIterFrom(stack) ==
  IF stack = <<>> THEN <<>>
  ELSE LET next == stack[Len(stack)]
           popped == SubSeq(stack, 1, Len(stack) - 1)
           rest == IF IsSome(next.right)
                     THEN push_left_branch(popped, next.right)
                     ELSE popped
       IN <<next.value>> \o TreeIterFrom(rest)

\* Tree::iter, collected
TreeIter(tree) == TreeIterFrom(push_left_branch(<<>>, tree))

InitTree ==
  /\ NoCache
  /\ test = NoTest
  /\ NoLock
  /\ root = None
  /\ inserted = [v \in TreeValues |-> 0]

\* tree.insert(value)
TreeInsert ==
  \E value \in TreeValues :
    LET r == IF IsSome(root) THEN NodeInsert(Unwrap(root), value)
             ELSE NodeNew(value)
    IN /\ panicked = None
       /\ inserted[value] < MaxRepeats
       /\ root' = IF IsUnwound(r) THEN None ELSE Some(r)
       /\ panicked' = IF IsUnwound(r) THEN Some("called Option::unwrap() on a None value")
                      ELSE None
       /\ inserted' = [inserted EXCEPT ![value] = inserted[value] + 1]
       /\ last' = Call("insert", "", value)
       /\ UNCHANGED <<map, buffer, head_index, tail_index, len, capacity, free,
                      recency, read, test, lockVars>>

\* for v in tree.iter() { .. }
TreeIterCall ==
  /\ panicked = None
  /\ last' = [Call("iter", "", 0) EXCEPT !.yielded = TreeIter(root)]
  /\ UNCHANGED <<map, buffer, head_index, tail_index, len, capacity, free,
                 panicked, recency, read, test, lockVars, treeVars>>

NextTree == TreeInsert \/ TreeIterCall

SpecTree == InitTree /\ [][NextTree]_vars

\* ---------------------------------------------------------------- claims
Occupied(c) == {i \in DOMAIN c.buffer : IsSome(c.buffer[i])}
Present(c) == DOMAIN c.map
Full(c) == Cardinality(Present(c)) = c.capacity
ValueOf(c, key) == Unwrap(c.buffer[c.map[key]]).value
LeastRecent(order) == order[Len(order)]
SetOfNew == last'.op = "set" /\ last'.key \notin DOMAIN map
SetOfPresent == last'.op = "set" /\ last'.key \in DOMAIN map
GetHit == last'.op = "get" /\ last'.key \in DOMAIN map
GetMiss == last'.op = "get" /\ last'.key \notin DOMAIN map

\* C1: a set of an absent key on a cache holding capacity keys removes
\* exactly one key, the least recently used one; a get of that key then
\* returns None and every other key that was present still is.
C1_EvictsLeastRecent ==
  [][(SetOfNew /\ Full(Cache)) =>
       /\ panicked' = None
       /\ DOMAIN map' = ((DOMAIN map) \ {LeastRecent(recency)}) \cup {last'.key}
       /\ Ok(Get(CacheNext, LeastRecent(recency)).c)
       /\ Get(CacheNext, LeastRecent(recency)).ret = None]_vars

\* C2: set(k, v) of an absent key followed at once by get(k) completes and
\* returns Some(v).
C2_SetThenGet ==
  [][SetOfNew =>
       /\ panicked' = None
       /\ Ok(Get(CacheNext, last'.key).c)
       /\ Get(CacheNext, last'.key).ret = Some(last'.value)]_vars

\* C3: after get(k) of a present key, iter() yields k's value first.
C3_GetMovesToHead ==
  [][GetHit =>
       /\ panicked' = None
       /\ Iter(CacheNext).yielded # <<>>
       /\ Iter(CacheNext).yielded[1] = ValueOf(Cache, last'.key)]_vars

\* C4: 0 <= len <= capacity, the buffer has capacity slots and the map holds
\* at most capacity keys.
C4_Bounds ==
  /\ len \in 0..capacity
  /\ DOMAIN buffer = 0..(capacity - 1)
  /\ Cardinality(DOMAIN map) <= capacity

C4_Witness ==
  /\ capacity >= 2
  /\ len = capacity
  /\ Cardinality(DOMAIN map) = capacity
  /\ last.op = "set"
  /\ free = <<>>
  /\ panicked = None

\* C5: after every call that returned, len is the number of keys of the map
\* and the number of occupied slots.
C5_LenCountsKeys ==
  panicked = None =>
    /\ len = Cardinality(DOMAIN map)
    /\ len = Cardinality(Occupied(Cache))

\* C6: get of a key that is not in the map returns None and changes no field.
C6_GetMiss ==
  [][GetMiss => (last'.ret = None /\ CacheNext = Cache)]_vars

C6_Witness ==
  /\ last.op = "get"
  /\ last.key \notin DOMAIN map
  /\ last.ret = None
  /\ len >= 2
  /\ free # <<>>
  /\ panicked = None

\* C7: set of a key that is present changes the value in that key's slot and
\* nothing else: links, head_index, tail_index, len, free and map stay.
C7_SetPresentInPlace ==
  [][SetOfPresent =>
       /\ IsSome(buffer[map[last'.key]])
       /\ CacheNext =
            [Cache EXCEPT !.buffer[map[last'.key]] =
               Some([Unwrap(buffer[map[last'.key]]) EXCEPT !.value = last'.value])]
       /\ recency' = recency]_vars

C7_Witness ==
  /\ last.op = "set"
  /\ last.key \in DOMAIN map
  /\ Len(recency) >= 2
  /\ recency[1] # last.key
  /\ head_index # map[last.key]
  /\ ValueOf(Cache, last.key) = last.value
  /\ panicked = None

\* get called on each key of ks in turn: what the calls return
RECURSIVE GetEach(_, _)
GetEach(c, ks) ==
  IF ks = <<>> THEN <<>>
  ELSE IF ~Ok(c) THEN <<"panicked">> \o GetEach(c, Tail(ks))
  ELSE LET r == Get(c, Head(ks)) IN <<r.ret>> \o GetEach(r.c, Tail(ks))

\* the sequences that list every element of S once
Orderings(S) ==
  {ks \in [1..Cardinality(S) -> S] : \A i, j \in DOMAIN ks : ks[i] = ks[j] => i = j}

\* C8: in a full cache whose keys have all been hit by get, set(k, v2) of a
\* present key evicts nothing, the next get(k) returns Some(v2), and get of
\* each other key returns the value the key had, whatever the order of gets.
C8_UpdateKeepsOthers ==
  [][(SetOfPresent /\ Full(Cache) /\ read = DOMAIN map) =>
       /\ panicked' = None
       /\ DOMAIN map' = DOMAIN map
       /\ Get(CacheNext, last'.key).ret = Some(last'.value)
       /\ \A ks \in Orderings(DOMAIN map) :
            GetEach(CacheNext, ks) =
              [i \in DOMAIN ks |->
                 IF ks[i] = last'.key THEN Some(last'.value)
                 ELSE Some(ValueOf(Cache, ks[i]))]]_vars

C8_Witness ==
  /\ last.op = "set"
  /\ last.key \in DOMAIN map
  /\ Full(Cache)
  /\ read = DOMAIN map
  /\ capacity >= 2
  /\ head_index # map[last.key]
  /\ \E j \in DOMAIN map : ValueOf(Cache, j) # last.value
  /\ ValueOf(Cache, last.key) = last.value
  /\ panicked = None

\* C9: iter() ends and yields one value per key of the map, from the most
\* to the least recently used; nothing on an empty cache.
C9_IterByRecency ==
  panicked = None =>
    /\ Iter(Cache).finite
    /\ Iter(Cache).panicked = None
    /\ Len(Iter(Cache).yielded) = Len(recency)
    /\ \A i \in 1..Len(recency) :
         i <= Len(Iter(Cache).yielded) =>
           Iter(Cache).yielded[i] = ValueOf(Cache, recency[i])

\* C10: a cache of capacity n filled by n sets of distinct keys k1..kn and
\* read by get(k1), ..., get(kn), each returning its value, evicts k1 on the
\* set of a new key: get(k1) then returns None and get of k2..kn and of the
\* new key return their values.
C10_FillReadEvictsFirst ==
  test.name = "test_set_get" =>
    /\ panicked = None
    /\ ~test.failed
    /\ (test.step > capacity /\ test.step <= 2 * capacity) =>
         last.ret = Some(test.values[test.step - capacity])
    /\ test.step = 2 * capacity + 1 =>
         DOMAIN map = {test.keys[i] : i \in 2..(capacity + 1)}
    /\ test.step = 2 * capacity + 2 => (last.key = test.keys[1] /\ last.ret = None)
    /\ test.step > 2 * capacity + 2 =>
         /\ last.key = test.keys[test.step - 2 * capacity - 1]
         /\ last.ret = Some(test.values[test.step - 2 * capacity - 1])

C10_Witness ==
  /\ test.name = "test_set_get"
  /\ capacity >= 3
  /\ test.step = TestLength(capacity)
  /\ last.op = "get"
  /\ last.key = test.keys[capacity + 1]
  /\ last.ret = Some(test.values[capacity + 1])
  /\ test.keys[1] \notin DOMAIN map
  /\ ~test.failed
  /\ panicked = None

\* C11: with more than n + 1 slots, after n >= 2 sets of distinct keys and
\* one get of the key set first, iter() yields that key's value, then the
\* values of the other keys from the last set to the second, and ends.
C11_IterAfterGetOfFirst ==
  (test.name = "iter_by_recency" /\ Len(test.keys) >= 2
     /\ capacity > Len(test.keys) + 1) =>
    /\ panicked = None
    /\ test.step = Len(test.keys) + 2 =>
         /\ last.op = "iter"
         /\ last.finite
         /\ last.yielded =
              [i \in 1..Len(test.keys) |->
                 IF i = 1 THEN test.values[1]
                 ELSE test.values[Len(test.keys) + 2 - i]]

C11_Witness ==
  /\ test.name = "iter_by_recency"
  /\ test.step = Len(test.keys) + 2
  /\ Len(test.keys) >= 3
  /\ capacity > Len(test.keys) + 1
  /\ last.op = "iter"
  /\ Len(last.yielded) = Len(test.keys)
  /\ last.yielded[1] = 1
  /\ last.yielded[2] = Len(test.keys)
  /\ panicked = None

\* C12: with capacity >= 1 no set, get or iter call panics: no buffer index
\* is out of range and no expect or unwrap finds None.
C12_NoPanic ==
  capacity >= 1 =>
    /\ panicked = None
    /\ Iter(Cache).panicked = None

\* the slots reached from index by following the link named by field, up to
\* fuel of them; the walk stops at None and at an empty slot
RECURSIVE Walk(_, _, _, _)
Walk(c, index, field, fuel) ==
  IF fuel = 0 \/ ~IsSome(index) THEN <<>>
  ELSE IF ~IsSome(c.buffer[Unwrap(index)]) THEN <<>>
  ELSE <<Unwrap(index)>> \o
       Walk(c, IF field = "next" THEN Unwrap(c.buffer[Unwrap(index)]).next
               ELSE Unwrap(c.buffer[Unwrap(index)]).previous, field, fuel - 1)

Reverse(q) == [i \in 1..Len(q) |-> q[Len(q) + 1 - i]]

\* C16: with n >= 1 keys present, the next links lead from head_index over
\* every occupied slot once, in n steps, to tail_index, whose next is None;
\* the previous links lead from tail_index back over the same slots to
\* head_index, whose previous is None.
C16_ListIsWellFormed ==
  (panicked = None /\ DOMAIN map # {}) =>
    LET forward == Walk(Cache, Some(head_index), "next", capacity + 1)
        backward == Walk(Cache, Some(tail_index), "previous", capacity + 1)
    IN /\ Len(forward) = Cardinality(DOMAIN map)
       /\ {forward[i] : i \in DOMAIN forward} = Occupied(Cache)
       /\ forward[Len(forward)] = tail_index
       /\ Unwrap(buffer[tail_index]).next = None
       /\ backward = Reverse(forward)
       /\ Unwrap(buffer[head_index]).previous = None

\* C19: when a key is present, tail_index names an occupied slot and the key
\* in it is the least recently used key.
C19_TailIsLeastRecent ==
  (panicked = None /\ DOMAIN map # {}) =>
    /\ IsSome(buffer[tail_index])
    /\ Unwrap(buffer[tail_index]).key = LeastRecent(recency)

\* C17: the map is in exact sync with the buffer: k is mapped to slot i if
\* and only if slot i holds a node whose key is k.
C17_MapMatchesBuffer ==
  panicked = None =>
    /\ \A k \in DOMAIN map :
         /\ map[k] \in DOMAIN buffer
         /\ IsSome(buffer[map[k]])
         /\ Unwrap(buffer[map[k]]).key = k
    /\ \A i \in Occupied(Cache) :
         /\ Unwrap(buffer[i]).key \in DOMAIN map
         /\ map[Unwrap(buffer[i]).key] = i

C17_Witness ==
  /\ capacity = 2
  /\ Cardinality(DOMAIN map) = 2
  /\ last.op = "set"
  /\ recency[1] = last.key
  /\ read # {}
  /\ map[last.key] # head_index \/ tail_index = head_index
  /\ panicked = None

\* C18: every index in the free list names an empty slot, and no index is
\* in the list twice.
C18_FreeListIsFree ==
  /\ \A i \in DOMAIN free :
       /\ free[i] \in DOMAIN buffer
       /\ ~IsSome(buffer[free[i]])
  /\ \A i, j \in DOMAIN free : free[i] = free[j] => i = j

C18_Witness ==
  /\ Len(free) = 1
  /\ last.op = "get"
  /\ IsSome(last.ret)
  /\ len = capacity
  /\ Cardinality(DOMAIN map) < capacity
  /\ panicked = None

\* push_front takes its third branch, the eviction
TakesEvictionBranch(c) == ~has_unused_slot(c) /\ Len(c.free) = 0

\* C20: push_front evicts only when every slot is occupied and the free list
\* is empty (the push_front of a get, which follows a remove, never does); a
\* set of a new key into a cache with fewer than capacity keys removes no
\* key and adds exactly one.
C20_EvictsOnlyWhenFull ==
  [][/\ SetOfNew =>
          /\ TakesEvictionBranch(Cache) =>
               /\ Occupied(Cache) = DOMAIN buffer
               /\ Cardinality(DOMAIN map) = capacity
          /\ Cardinality(DOMAIN map) < capacity =>
               /\ panicked' = None
               /\ ~TakesEvictionBranch(Cache)
               /\ DOMAIN map' = (DOMAIN map) \cup {last'.key}
               /\ Cardinality(DOMAIN map') = Cardinality(DOMAIN map) + 1
     /\ GetHit => ~TakesEvictionBranch(remove(Cache, map[last'.key]).c)]_vars

C20_Witness ==
  /\ capacity >= 3
  /\ last.op = "set"
  /\ recency[1] = last.key
  /\ read # {}
  /\ free = <<>>
  /\ len = capacity
  /\ Cardinality(DOMAIN map) = capacity
  /\ panicked = None

\* the threads that own a Guard
Holders == {t \in DOMAIN threads : threads[t].pc \in {"guard", "deref_mut"}}

\* C13: at most one Guard exists at any time and locked is true while it
\* exists; at most one thread holds a reference to the protected value; a
\* thread leaves the swap loop only if its swap found locked false, and
\* locked is then true.
C13_OneGuard ==
  /\ [](/\ Cardinality(Holders) <= 1
        /\ Holders # {} => locked
        /\ Cardinality({t \in DOMAIN threads : threads[t].pc = "deref_mut"}) <= 1)
  /\ [][\A t \in DOMAIN threads :
          /\ (threads[t].pc = "swap" /\ threads'[t].pc = "while") =>
               (threads'[t].old = Some(locked) /\ locked')
          /\ (threads[t].pc = "while" /\ threads'[t].pc = "guard") =>
               (threads[t].old = Some(FALSE) /\ locked)]_vars

C13_Witness ==
  /\ \E t \in DOMAIN threads : threads[t].pc = "deref_mut"
  /\ \E t \in DOMAIN threads : threads[t].pc = "spin_loop"
  /\ \E t \in DOMAIN threads : threads[t].rounds > 0
  /\ lock_value # <<>>

\* C14: once both spawned threads of tests::spin_lock have finished, the
\* vector is [1, 2, 3] or [3, 2, 1], so that the assertion of the test holds.
C14_TestVector ==
  /\ Finished => (lock_value = <<1, 2, 3>> \/ lock_value = <<3, 2, 1>>)
  /\ ~test.failed

\* the values insert was called with
Distinct == {v \in DOMAIN inserted : inserted[v] > 0}

\* C15: iter() yields the values in strictly ascending order, and yields
\* exactly the distinct values inserted, each once; no insert panics.
C15_IterAscending ==
  LET ys == TreeIter(root) IN
  /\ panicked = None
  /\ \A i, j \in DOMAIN ys : i < j => ys[i] < ys[j]
  /\ {ys[i] : i \in DOMAIN ys} = Distinct
  /\ Len(ys) = Cardinality(Distinct)
  /\ last.op = "iter" => last.yielded = ys

C15_Witness ==
  /\ last.op = "iter"
  /\ Len(last.yielded) = MaxTreeValue
  /\ \E v \in Distinct : inserted[v] > 1
  /\ Unwrap(root).height >= 3
  /\ IsSome(Unwrap(root).left) /\ IsSome(Unwrap(Unwrap(root).left).right)

\* the value the cache holds for key, None when the slot it is mapped to is
\* empty
HeldValue(c, key) ==
  IF c.map[key] \in DOMAIN c.buffer /\ IsSome(c.buffer[c.map[key]])
    THEN Some(Unwrap(c.buffer[c.map[key]]).value)
    ELSE None

\* C21: a key leaves the map only in a set of a different key that was
\* absent; a get (hit or miss) and a set of a present key keep the set of
\* present keys and the value held for every key (for every other key, in
\* the set).
C21_KeysLeaveByEvictionOnly ==
  [][/\ \A k \in DOMAIN map :
          k \notin DOMAIN map' => (SetOfNew /\ last'.key # k)
     /\ (GetHit \/ GetMiss \/ SetOfPresent) =>
          /\ DOMAIN map' = DOMAIN map
          /\ \A k \in DOMAIN map :
               (SetOfPresent /\ k = last'.key)
                 \/ HeldValue(CacheNext, k) = HeldValue(Cache, k)]_vars

RECURSIVE TrueHeight(_)
TrueHeight(node) ==
  IF IsSome(node)
    THEN 1 + Max(TrueHeight(Unwrap(node).left), TrueHeight(Unwrap(node).right))
    ELSE 0

\* every node of the subtree has the height field its subtrees call for
RECURSIVE HeightsExact(_)
HeightsExact(node) ==
  IsSome(node) =>
    /\ Unwrap(node).height = TrueHeight(node)
    /\ HeightsExact(Unwrap(node).left)
    /\ HeightsExact(Unwrap(node).right)

\* every node of the subtree has subtrees whose heights differ by at most 1
RECURSIVE Balanced(_)
Balanced(node) ==
  IsSome(node) =>
    /\ TrueHeight(Unwrap(node).left) - TrueHeight(Unwrap(node).right) \in -1..1
    /\ Balanced(Unwrap(node).left)
    /\ Balanced(Unwrap(node).right)

\* C23: after any sequence of inserts every node is balanced and stores
\* its true height, the nodes a rotation has just moved included.
C23_BalancedWithExactHeights ==
  /\ Balanced(root)
  /\ HeightsExact(root)

\* the value just inserted for the first time sits below the root with a
\* child of its own: the insert ended in a double rotation under the root
C23_Witness ==
  /\ last.op = "insert"
  /\ inserted[last.value] = 1
  /\ Cardinality(Distinct) >= 5
  /\ \E side \in {"left", "right"} :
       /\ IsSome(Unwrap(root)[side])
       /\ Unwrap(Unwrap(root)[side]).value = last.value
       /\ IsSome(Unwrap(Unwrap(root)[side]).left)
       /\ IsSome(Unwrap(Unwrap(root)[side]).right)

\* every thread has made its MaxRounds calls of lock() and dropped every Guard
AllReturned ==
  \A t \in 1..NumThreads : threads[t].pc = "idle" /\ threads[t].rounds = MaxRounds

\* C24: with every thread scheduled fairly, every call of lock() returns
\* and the threads all end, with locked = false, for good.
C24_LockReturns ==
  /\ \A t \in 1..NumThreads : (threads[t].pc = "swap") ~> (threads[t].pc = "guard")
  /\ <>[](AllReturned /\ ~locked)

C24_Witness ==
  /\ AllReturned
  /\ ~locked
  /\ {lock_value[i] : i \in DOMAIN lock_value} = 1..NumThreads

====
